---- MODULE Spec2Model ----
(***************************************************************************)
(* A model of the SOCKS5 proxy session of src/src/index.ts                 *)
(* (addProxyListeners): the handshake, authentication and request handlers *)
(* armed on a client socket, the three hooks they await, the replies they  *)
(* hand to the socket and the registry of active sessions.                 *)
(*                                                                         *)
(* A step of the model is one callback of the event loop: a 'data' event   *)
(* dispatched to the armed handler, the callback of a socket.write, the    *)
(* continuation of an awaited hook, a 'data' or 'end' event of a relayed   *)
(* socket, or the 'end' or the abrupt close of a client.                   *)
(***************************************************************************)
EXTENDS Integers, Sequences, FiniteSets, TLC

(***************************************************************************)
(* Bounds of the model.                                                    *)
(***************************************************************************)
NumSessions == 2
MaxMethods == 1
MaxRelay == 2
MaxEvents == 2
MaxUnheard == 1

Sessions == 1..NumSessions

(***************************************************************************)
(* src/src/constants.ts                                                    *)
(***************************************************************************)
ATYP_IPV4 == 1
ATYP_DOMAINNAME == 3
ATYP_IPV6 == 4
LENGTH_RFC_1928_ATYP == 4
CMD_BIND == 2
CMD_CONNECT == 1
CMD_UDP_ASSOCIATE == 3
METHOD_BASIC_AUTHENTICATION == 2
METHOD_NO_ACCEPTABLE_METHODS == 255
METHOD_NO_AUTHENTICATION_REQUIRED == 0
REP_ADDRESS_TYPE_NOT_SUPPORTED == 8
REP_CONNECTION_NOT_ALLOWED == 2
REP_CONNECTION_REFUSED == 5
REP_GENERAL_FAILURE == 1
REP_HOST_UNREACHABLE == 4
REP_NETWORK_UNREACHABLE == 3
REP_SUCCEEDED == 0
REP_TTL_EXPIRED == 6
RFC_1928_VERSION == 5
AUTH_GENERAL_FAILURE == 255
AUTH_SUCCEEDED == 0
RFC_1929_VERSION == 1

(***************************************************************************)
(* The byte cursor the handlers chain (stream(buffer) of the "binary"      *)
(* package over a Buffer: a synchronous parse).  A word read past the end  *)
(* of the buffer yields null and leaves the offset alone; a sub-buffer is  *)
(* cut at the end of the buffer and advances the offset by its size.       *)
(***************************************************************************)
Null == -1

Min(a, b) == IF a < b THEN a ELSE b

\* the number a null length counts as in offset + size
SizeOf(n) == IF n = Null THEN 0 ELSE n

Word8(b, off) == IF off + 1 <= Len(b) THEN b[off + 1] ELSE Null

Word8Next(b, off) == IF off + 1 <= Len(b) THEN off + 1 ELSE off

\* variant: the two bytes are read in little-endian order
Word16bu_little(b, off) ==
    IF off + 2 <= Len(b) THEN b[off + 2] * 256 + b[off + 1] ELSE Null

Word16bu(b, off) ==
    IF off + 2 <= Len(b) THEN b[off + 1] * 256 + b[off + 2] ELSE Null

Word32be(b, off) ==
    IF off + 4 <= Len(b)
    THEN ((b[off + 1] * 256 + b[off + 2]) * 256 + b[off + 3]) * 256 + b[off + 4]
    ELSE Null

Word32Next(b, off) == IF off + 4 <= Len(b) THEN off + 4 ELSE off

BufferAt(b, off, size) == SubSeq(b, off + 1, Min(Len(b), off + SizeOf(size)))

Includes(seq, x) == \E i \in 1..Len(seq) : seq[i] = x

\* buffer[1] = response; a store past the end of a Buffer is dropped
SetStatus(b, code) == IF Len(b) >= 2 THEN [b EXCEPT ![2] = code] ELSE b

(***************************************************************************)
(* Text conversions of the address decoding.                               *)
(***************************************************************************)
DigitChars ==
    <<"0", "1", "2", "3", "4", "5", "6", "7", "8", "9", "a", "b", "c", "d", "e", "f">>

\* Number.prototype.toString(radix) of a non-negative integer
RECURSIVE NumStr(_, _)
NumStr(n, radix) ==
    IF n < radix
    THEN DigitChars[n + 1]
    ELSE NumStr(n \div radix, radix) \o DigitChars[(n % radix) + 1]

\* Array.prototype.join
RECURSIVE Join(_, _)
Join(parts, sep) ==
    IF Len(parts) = 0 THEN ""
    ELSE IF Len(parts) = 1 THEN parts[1]
    ELSE parts[1] \o sep \o Join(Tail(parts), sep)

\* one byte of Buffer.prototype.toString() (the ASCII letters the inputs use)
Chr(c) ==
    CASE c = 46 -> "."
      [] c = 97 -> "a"
      [] c = 98 -> "b"
      [] c = 99 -> "c"
      [] OTHER -> "?"

RECURSIVE BufToString(_)
BufToString(buf) ==
    IF Len(buf) = 0 THEN "" ELSE Chr(Head(buf)) \o BufToString(Tail(buf))

\* [].slice.call(args.addr.buf).join(".")
Ipv4Text(buf) == Join([i \in 1..Len(buf) |-> NumStr(buf[i], 10)], ".")

\* x >>> 16 and x & 0xffff of a 32-bit word; null counts as 0
HighWord(x) == IF x = Null THEN 0 ELSE x \div 65536

LowWord(x) == IF x = Null THEN 0 ELSE x % 65536

\* variant: each 32-bit word is written as one group
Ipv6Text_fourGroups(words) ==
    Join([i \in 1..Len(words) |-> NumStr(SizeOf(words[i]), 16)], ":")

Ipv6Text(words) ==
    Join([i \in 1..(2 * Len(words)) |->
            IF i % 2 = 1
            THEN NumStr(HighWord(words[(i + 1) \div 2]), 16)
            ELSE NumStr(LowWord(words[i \div 2]), 16)], ":")

\* the value of args.dst.addr when no branch of the decoder assigned it
Undefined == "<undefined>"

(***************************************************************************)
(* The fields the request handler reads from a buffer: VER CMD RSV ATYP,   *)
(* the address of the ATYP, then the port at the offset the address left.  *)
(***************************************************************************)
\* variant: the decoder has no branch for an unsupported address type
Supported_any(atyp) == TRUE

Supported(atyp) == atyp \in {ATYP_IPV4, ATYP_DOMAINNAME, ATYP_IPV6}

DomainSize(b) == Word8(b, 4)

Ipv6Words(b) ==
    LET o1 == Word32Next(b, 4)
        o2 == Word32Next(b, o1)
        o3 == Word32Next(b, o2)
    IN  <<Word32be(b, 4), Word32be(b, o1), Word32be(b, o2), Word32be(b, o3)>>

DecodeAddr(b) ==
    LET atyp == Word8(b, 3)
    IN  CASE atyp = ATYP_IPV4 -> Ipv4Text(BufferAt(b, 4, LENGTH_RFC_1928_ATYP))
          [] atyp = ATYP_DOMAINNAME ->
                BufToString(BufferAt(b, Word8Next(b, 4), DomainSize(b)))
          [] atyp = ATYP_IPV6 -> Ipv6Text(Ipv6Words(b))
          [] OTHER -> Undefined

\* the offset of the cursor when .word16bu("dst.port") runs
PortOffset(b) ==
    LET atyp == Word8(b, 3)
    IN  CASE atyp = ATYP_IPV4 -> 4 + LENGTH_RFC_1928_ATYP
          [] atyp = ATYP_DOMAINNAME -> Word8Next(b, 4) + SizeOf(DomainSize(b))
          [] atyp = ATYP_IPV6 ->
                Word32Next(b, Word32Next(b, Word32Next(b, Word32Next(b, 4))))
          [] OTHER -> 4

DecodePort(b) == Word16bu(b, PortOffset(b))

(***************************************************************************)
(* What the clients send and what the hooks answer.                        *)
(***************************************************************************)
OfferedMethods ==
    {METHOD_NO_AUTHENTICATION_REQUIRED, METHOD_BASIC_AUTHENTICATION}

\* METHODS: 1 to MaxMethods methods, each offered once, in increasing order
MethodLists ==
    {m \in UNION {[1..n -> OfferedMethods] : n \in 1..MaxMethods} :
        \A i \in 1..(Len(m) - 1) : m[i] < m[i + 1]}

\* VER NMETHODS METHODS, with the right and with a wrong version
HandshakeInputs ==
    {<<ver, Len(m)>> \o m : ver \in {4, RFC_1928_VERSION}, m \in MethodLists}

\* VER ULEN UNAME PLEN PASSWD, with the right and with a wrong version
AuthInputs == {<<RFC_1929_VERSION, 1, 97, 1, 98>>, <<RFC_1928_VERSION, 1, 97, 1, 98>>}

AddrBytes(atyp) ==
    CASE atyp = ATYP_IPV4 -> <<93, 184, 216, 34>>
      [] atyp = ATYP_DOMAINNAME -> <<3, 97, 46, 98>>
      [] atyp = ATYP_IPV6 ->
            <<32, 1, 13, 184, 0, 0, 0, 0, 0, 0, 0, 0, 0, 0, 0, 1>>
      [] OTHER -> <<10, 0, 0, 1>>

\* VER CMD RSV ATYP DST.ADDR DST.PORT: every command with every address type
\* (9 is no address type), two more addresses with port 443, a request of a
\* wrong version, a truncated one and one of a single byte
RequestInputs ==
    {<<RFC_1928_VERSION, cmd, 0, atyp>> \o AddrBytes(atyp) \o <<0, 80>> :
        cmd \in {CMD_CONNECT, CMD_BIND}, atyp \in {ATYP_IPV4, ATYP_DOMAINNAME, ATYP_IPV6, 9}}
    \cup {<<RFC_1928_VERSION, CMD_CONNECT, 0, ATYP_IPV4, 10, 0, 0, 1, 1, 187>>,
          <<RFC_1928_VERSION, CMD_CONNECT, 0, ATYP_IPV6,
            127, 2, 0, 0, 0, 0, 0, 0, 0, 0, 0, 0, 0, 10, 0, 27, 1, 187>>,
          <<4, CMD_CONNECT, 0, ATYP_IPV4, 93, 184, 216, 34, 0, 80>>,
          <<RFC_1928_VERSION, CMD_CONNECT, 0, ATYP_IPV4, 93, 184>>,
          <<RFC_1928_VERSION, CMD_UDP_ASSOCIATE, 0, ATYP_IPV4, 93, 184, 216, 34, 0, 80>>,
          <<RFC_1928_VERSION>>}

\* what an authenticate or filter hook settles with: a value, or a throw or
\* rejection
HookResults == {"true", "false", "undefined", "reject"}

\* variant: the result is compared with false instead of tested for truth
Truthy_notFalse(r) == r # "false"

Truthy(r) == r = "true"

\* what a connect hook settles with: a socket, an error with a code, or an
\* error without one
ConnectResults ==
    {"socket", "EADDRNOTAVAIL", "ECONNREFUSED", "ETIMEDOUT", "EHOSTUNREACH", "nocode"}

\* the k-th chunk the destination sends, and the k-th chunk the client sends
\* once the request is answered
DestinationChunk(k) == <<100 + k>>

ClientChunk(k) == <<200 + k>>

(***************************************************************************)
(* State.  options: which hooks the server was given.  clients: the        *)
(* connections that are opened in this run.  activeSessions: the           *)
(* registry.  session[s]: the socket of connection s and the closures of   *)
(* its handlers:                                                           *)
(*   accepted     the 'connection' event has fired                         *)
(*   armed        the handlers listening with socket.once("data", ...)     *)
(*   callback     what the pending socket.write callback will arm          *)
(*   hook         the hook the session awaits                              *)
(*   buffer       the request Buffer the connect handler holds             *)
(*   dst          args.dst as passed to filter and connect                 *)
(*   filterArgs   the port and host options.filter was called with         *)
(*   connectArgs  the port and host options.connect was called with        *)
(*   sent         the frames handed to the socket before socket.end        *)
(*   ended        socket.end has been called                               *)
(*   late         writes handed to the socket after socket.end             *)
(*   escaped      an exception or rejection nothing catches                *)
(*   piped        destination.pipe(socket) and socket.pipe(destination)    *)
(*   clientEnded  the 'end' event has fired                                *)
(*   destOpen     the connect hook has resolved with a connected socket    *)
(*   destEmitted  the number of chunks the destination has sent            *)
(*   destUnread   the chunks waiting in the destination socket, which      *)
(*                nothing reads before it is piped                         *)
(*   destReceived the chunks written to the destination                    *)
(*   relayed      the number of frames of sent that came from the          *)
(*                destination                                              *)
(*   destFin      the destination has reached its end-of-stream            *)
(*   destEnded    destination.end() has been called                        *)
(*   closed       the connection was reset: 'error' and 'close' have       *)
(*                fired, 'end' never will, and the socket is destroyed     *)
(*   closedWhile  the hook that was pending when the connection was reset   *)
(*   lost         the terminating replies refused because the socket was   *)
(*                closed                                                   *)
(*   unheard      the chunks the client socket emitted as 'data' while no  *)
(*                handler was armed and no pipe was set up                 *)
(*   wait         waitForConnect(destination) of the default connect hook: *)
(*                its promise, its listeners on the destination socket,    *)
(*                and the events that socket has emitted since the call    *)
(* and, as history: hello, credentials and request (the handshake,         *)
(* authentication and request buffers as received) and trace (handlers     *)
(* run, hooks called and settled).                                         *)
(***************************************************************************)
VARIABLES options, clients, activeSessions, session

vars == <<options, clients, activeSessions, session>>

NoDst == [addr |-> Undefined, port |-> Null]

NoWait == [promise |-> "none", listeners |-> {}, emitted |-> <<>>]

NewSession ==
    [accepted |-> FALSE, armed |-> {}, callback |-> "none", hook |-> "none",
     buffer |-> <<>>, dst |-> NoDst, filterArgs |-> NoDst, connectArgs |-> NoDst,
     sent |-> <<>>, ended |-> FALSE, late |-> 0,
     escaped |-> "none", piped |-> FALSE, clientEnded |-> FALSE,
     destOpen |-> FALSE, destEmitted |-> 0, destUnread |-> <<>>,
     destReceived |-> <<>>, relayed |-> 0, destFin |-> FALSE,
     destEnded |-> FALSE, closed |-> FALSE, lost |-> <<>>, wait |-> NoWait,
     unheard |-> <<>>, closedWhile |-> "none",
     hello |-> <<>>, credentials |-> <<>>, request |-> <<>>, trace |-> <<>>]

\* one connection, with every input
Init ==
    /\ options \in [authenticate : BOOLEAN, filter : BOOLEAN]
    /\ clients \in {{s} : s \in Sessions}
    /\ activeSessions = <<>>
    /\ session = [s \in Sessions |-> NewSession]

(***************************************************************************)
(* Writing to the client socket.                                           *)
(***************************************************************************)
\* variant: socket.end is called outside try/catch and its failure on a
\* closed socket is thrown
SocketEndWith_uncaught(ss, frame) ==
    IF ss.closed
    THEN [ss EXCEPT !.late = @ + 1, !.lost = Append(@, frame), !.escaped = "write"]
    ELSE IF ss.ended
    THEN [ss EXCEPT !.late = @ + 1]
    ELSE [ss EXCEPT !.sent = Append(@, frame), !.ended = TRUE]

\* try { socket.end(response) } catch { socket.destroy() }: the frame goes out
\* and the writable side ends; on a socket that has ended already the frame
\* is refused (write after end).  On a closed socket the write fails: whether
\* the failure is reported to the 'error' listener or thrown into the catch
\* block, the frame is lost, the socket is destroyed (it stays closed) and
\* nothing is thrown further.  The bytes sent are those the buffer holds at
\* the call: a later store into the recycled request buffer does not change a
\* frame already handed over.
SocketEndWith(ss, frame) ==
    IF ss.closed
    THEN [ss EXCEPT !.late = @ + 1, !.lost = Append(@, frame)]
    ELSE IF ss.ended
    THEN [ss EXCEPT !.late = @ + 1]
    ELSE [ss EXCEPT !.sent = Append(@, frame), !.ended = TRUE]

\* socket.write(frame, callback): the callback runs later, also after a
\* refused write
SocketWrite(ss, frame, next) ==
    IF ss.ended \/ ss.closed
    THEN [ss EXCEPT !.late = @ + 1, !.callback = next]
    ELSE [ss EXCEPT !.sent = Append(@, frame), !.callback = next]

\* destination.pipe(socket) writing chunks to the client socket
PipeToClient(ss, chunks) ==
    IF ss.ended \/ ss.closed
    THEN [ss EXCEPT !.late = @ + Len(chunks)]
    ELSE [ss EXCEPT !.sent = @ \o chunks, !.relayed = @ + Len(chunks)]

end(ss, response) == SocketEndWith(ss, response)

authenticateReply(response) == <<RFC_1929_VERSION, response>>

endHandshake(ss, response) == SocketEndWith(ss, <<RFC_1928_VERSION, response>>)

\* variant: the first byte of the recycled buffer is not checked
endConnect_unchecked(ss, response) ==
    SocketEndWith([ss EXCEPT !.buffer = SetStatus(@, response)],
                  SetStatus(ss.buffer, response))

\* endConnect recycles the request buffer: it throws unless the buffer starts
\* with the version, else stores the reply code in it and ends the socket with it
endConnect(ss, response) ==
    IF Word8(ss.buffer, 0) # RFC_1928_VERSION
    THEN [ss EXCEPT !.escaped = "TypeError"]
    ELSE SocketEndWith([ss EXCEPT !.buffer = SetStatus(@, response)],
                       SetStatus(ss.buffer, response))

Logged(ss, event) == [ss EXCEPT !.trace = Append(@, event)]

(***************************************************************************)
(* The handshake handler.                                                  *)
(***************************************************************************)
\* typeof of a boolean
TypeOf(bool) == "boolean"

\* a non-empty string is truthy
TruthyString(str) == str # ""

\* variant: the negation of basicAuth is lost
noAuth_inverted(basicAuth, acceptedMethods) ==
    /\ basicAuth
    /\ TruthyString(TypeOf(Includes(acceptedMethods, METHOD_NO_AUTHENTICATION_REQUIRED)))

\* const noAuth = !basicAuth && typeof acceptedMethods.includes(...)
noAuth(basicAuth, acceptedMethods) ==
    /\ ~basicAuth
    /\ TruthyString(TypeOf(Includes(acceptedMethods, METHOD_NO_AUTHENTICATION_REQUIRED)))

\* args.methods: NMETHODS bytes after VER and NMETHODS
Methods(b) == BufferAt(b, Word8Next(b, Word8Next(b, 0)), Word8(b, 1))

\* variant: the method the client offers wins over the configured hook
handshake_clientChoice(ss, b, opts) ==
    LET s0 == Logged([ss EXCEPT !.armed = @ \ {"handshake"}, !.hello = b],
                     <<"run", "handshake">>)
    IN  IF Word8(b, 0) # RFC_1928_VERSION
        THEN endHandshake(s0, REP_GENERAL_FAILURE)
        ELSE IF Includes(Methods(b), METHOD_NO_AUTHENTICATION_REQUIRED)
        THEN SocketWrite(s0, <<RFC_1928_VERSION, METHOD_NO_AUTHENTICATION_REQUIRED>>,
                         "connect")
        ELSE IF opts.authenticate
        THEN SocketWrite(s0, <<RFC_1928_VERSION, METHOD_BASIC_AUTHENTICATION>>,
                         "authenticate")
        ELSE endHandshake(s0, METHOD_NO_ACCEPTABLE_METHODS)

\* variant: the handler is registered with on("data") and stays registered
handshake_keepsListening(ss, b, opts) ==
    LET s0 == Logged([ss EXCEPT !.hello = b], <<"run", "handshake">>)
        basicAuth == opts.authenticate
    IN  IF Word8(b, 0) # RFC_1928_VERSION
        THEN endHandshake(s0, REP_GENERAL_FAILURE)
        ELSE IF basicAuth
        THEN SocketWrite(s0, <<RFC_1928_VERSION, METHOD_BASIC_AUTHENTICATION>>,
                         "authenticate")
        ELSE IF ~basicAuth /\ noAuth(basicAuth, Methods(b))
        THEN SocketWrite(s0, <<RFC_1928_VERSION, METHOD_NO_AUTHENTICATION_REQUIRED>>,
                         "connect")
        ELSE endHandshake(s0, METHOD_NO_ACCEPTABLE_METHODS)

\* variant: the version of the handshake is not checked
handshake_anyVersion(ss, b, opts) ==
    LET s0 == Logged([ss EXCEPT !.armed = @ \ {"handshake"}, !.hello = b],
                     <<"run", "handshake">>)
        basicAuth == opts.authenticate
    IN  IF basicAuth
        THEN SocketWrite(s0, <<RFC_1928_VERSION, METHOD_BASIC_AUTHENTICATION>>,
                         "authenticate")
        ELSE IF ~basicAuth /\ noAuth(basicAuth, Methods(b))
        THEN SocketWrite(s0, <<RFC_1928_VERSION, METHOD_NO_AUTHENTICATION_REQUIRED>>,
                         "connect")
        ELSE endHandshake(s0, METHOD_NO_ACCEPTABLE_METHODS)

handshake(ss, b, opts) ==
    LET s0 == Logged([ss EXCEPT !.armed = @ \ {"handshake"}, !.hello = b],
                     <<"run", "handshake">>)
        basicAuth == opts.authenticate
    IN  IF Word8(b, 0) # RFC_1928_VERSION
        THEN endHandshake(s0, REP_GENERAL_FAILURE)
        ELSE IF basicAuth
        THEN SocketWrite(s0, <<RFC_1928_VERSION, METHOD_BASIC_AUTHENTICATION>>,
                         "authenticate")
        ELSE IF ~basicAuth /\ noAuth(basicAuth, Methods(b))
        THEN SocketWrite(s0, <<RFC_1928_VERSION, METHOD_NO_AUTHENTICATION_REQUIRED>>,
                         "connect")
        ELSE endHandshake(s0, METHOD_NO_ACCEPTABLE_METHODS)

(***************************************************************************)
(* The authentication handler and the continuation of its await.           *)
(***************************************************************************)
\* variant: the version of the message is not checked
authenticate_anyVersion(ss, b) ==
    LET s0 == Logged([ss EXCEPT !.armed = @ \ {"authenticate"}, !.credentials = b],
                     <<"run", "authenticate">>)
    IN  Logged([s0 EXCEPT !.hook = "authenticate"], <<"call", "authenticate">>)

\* variant: the request handler is armed before the hook is awaited
authenticate_armsRequest(ss, b) ==
    LET s0 == Logged([ss EXCEPT !.armed = @ \ {"authenticate"}, !.credentials = b],
                     <<"run", "authenticate">>)
    IN  IF Word8(b, 0) # RFC_1929_VERSION
        THEN end(s0, authenticateReply(AUTH_GENERAL_FAILURE))
        ELSE Logged([s0 EXCEPT !.hook = "authenticate", !.armed = @ \cup {"connect"}],
                    <<"call", "authenticate">>)

authenticate(ss, b) ==
    LET s0 == Logged([ss EXCEPT !.armed = @ \ {"authenticate"}, !.credentials = b],
                     <<"run", "authenticate">>)
    IN  IF Word8(b, 0) # RFC_1929_VERSION
        THEN end(s0, authenticateReply(AUTH_GENERAL_FAILURE))
        ELSE Logged([s0 EXCEPT !.hook = "authenticate"], <<"call", "authenticate">>)

\* a throw or rejection of the hook leaves the async callback: nothing
\* catches it, and nothing is written
authenticateSettled(ss, auth) ==
    LET s0 == Logged([ss EXCEPT !.hook = "none"], <<"settle", "authenticate", auth>>)
    IN  IF auth = "reject"
        THEN [s0 EXCEPT !.escaped = "rejection"]
        ELSE IF Truthy(auth)
        THEN SocketWrite(s0, authenticateReply(AUTH_SUCCEEDED), "connect")
        ELSE end(s0, authenticateReply(AUTH_GENERAL_FAILURE))

(***************************************************************************)
(* The request handler and the continuations of its awaits.                *)
(***************************************************************************)
\* options.filter(args.dst.port, args.dst.addr, socket)
callFilter(ss) ==
    Logged([ss EXCEPT !.hook = "filter", !.filterArgs = ss.dst], <<"call", "filter">>)

\* variant: connect is called with the port args.dst was created with
callConnect_portZero(ss) ==
    Logged([ss EXCEPT !.hook = "connect", !.connectArgs = [ss.dst EXCEPT !.port = 0]],
           <<"call", "connect">>)

\* options.connect(args.dst.port, args.dst.addr, socket)
callConnect(ss) ==
    Logged([ss EXCEPT !.hook = "connect", !.connectArgs = ss.dst], <<"call", "connect">>)

\* the first tap: the version check, the registry (see Connect) and the
\* address decoding
connectDecode(ss, b) ==
    IF Word8(b, 0) # RFC_1928_VERSION
    THEN endConnect(ss, REP_GENERAL_FAILURE)
    ELSE IF ~Supported(Word8(b, 3))
    THEN endConnect(ss, REP_ADDRESS_TYPE_NOT_SUPPORTED)
    ELSE [ss EXCEPT !.dst = [addr |-> DecodeAddr(b), port |-> 0]]

\* variant: connect is called without waiting for the filter
connectCommand_skipsFilter(ss, b, opts) ==
    LET s0 == [ss EXCEPT !.dst.port = DecodePort(b)]
    IN  IF Word8(b, 1) = CMD_CONNECT
        THEN callConnect(s0)
        ELSE endConnect(s0, REP_SUCCEEDED)

\* variant: BIND is served like CONNECT
connectCommand_bindConnects(ss, b, opts) ==
    LET s0 == [ss EXCEPT !.dst.port = DecodePort(b)]
    IN  IF Word8(b, 1) \in {CMD_CONNECT, CMD_BIND}
        THEN IF opts.filter
             THEN callFilter(s0)
             ELSE callConnect(s0)
        ELSE endConnect(s0, REP_SUCCEEDED)

\* .word16bu("dst.port") and the second tap, which run after the first tap
\* returns, whatever it returned
connectCommand(ss, b, opts) ==
    LET s0 == [ss EXCEPT !.dst.port = DecodePort(b)]
    IN  IF Word8(b, 1) = CMD_CONNECT
        THEN IF opts.filter
             THEN callFilter(s0)
             ELSE callConnect(s0)
        ELSE endConnect(s0, REP_SUCCEEDED)

connect(ss, b, opts) ==
    LET s0 == Logged([ss EXCEPT !.armed = @ \ {"connect"}, !.buffer = b,
                                !.request = b],
                     <<"run", "connect">>)
        s1 == connectDecode(s0, b)
    IN  IF s1.escaped # "none" THEN s1 ELSE connectCommand(s1, b, opts)

filterSettled(ss, filtered) ==
    LET s0 == Logged([ss EXCEPT !.hook = "none"], <<"settle", "filter", filtered>>)
    IN  IF filtered = "reject"
        THEN [s0 EXCEPT !.escaped = "rejection"]
        ELSE IF ~Truthy(filtered)
        THEN endConnect(s0, REP_CONNECTION_NOT_ALLOWED)
        ELSE callConnect(s0)

\* the reply code of the catch block for an error with a code
ReplyOf(code) ==
    CASE code = "EADDRNOTAVAIL" -> REP_HOST_UNREACHABLE
      [] code = "ECONNREFUSED" -> REP_CONNECTION_REFUSED
      [] code = "ETIMEDOUT" -> REP_TTL_EXPIRED
      [] OTHER -> REP_NETWORK_UNREACHABLE

\* variant: an error without a code is thrown before any reply is made
connectSettled_throwsFirst(ss, result) ==
    LET s0 == Logged([ss EXCEPT !.hook = "none"], <<"settle", "connect", result>>)
    IN  IF result = "socket"
        THEN SocketWrite([s0 EXCEPT !.destOpen = TRUE],
                         SetStatus(s0.buffer, REP_SUCCEEDED), "pipe")
        ELSE IF result = "nocode"
        THEN [s0 EXCEPT !.escaped = "rejection"]
        ELSE endConnect(s0, ReplyOf(result))

\* the continuation of await options.connect: the success reply, or the
\* catch block, which throws again an error that has no string code
connectSettled(ss, result) ==
    LET s0 == Logged([ss EXCEPT !.hook = "none"], <<"settle", "connect", result>>)
    IN  IF result = "socket"
        THEN SocketWrite([s0 EXCEPT !.destOpen = TRUE],
                         SetStatus(s0.buffer, REP_SUCCEEDED), "pipe")
        ELSE IF result = "nocode"
        THEN [endConnect(s0, REP_NETWORK_UNREACHABLE) EXCEPT !.escaped = "rejection"]
        ELSE endConnect(s0, ReplyOf(result))

\* destination.pipe(socket); socket.pipe(destination): what the destination
\* sent so far is passed on, and an end-of-stream a source has reached
\* already ends the other socket
pipe(ss) ==
    LET s0 == PipeToClient([ss EXCEPT !.callback = "none", !.piped = TRUE,
                                      !.destUnread = <<>>],
                           ss.destUnread)
    IN  [s0 EXCEPT !.ended = @ \/ ss.destFin, !.destEnded = @ \/ ss.clientEnded]

\* variant: the callback arms the request handler instead of the next handler
writeCallback_armsConnect(ss) ==
    IF ss.callback = "pipe"
    THEN pipe(ss)
    ELSE [ss EXCEPT !.callback = "none", !.armed = @ \cup {"connect"}]

\* the callback of socket.write: arm the next handler, or start the relay,
\* which first passes on what the destination has sent so far
writeCallback(ss) ==
    IF ss.callback = "pipe"
    THEN pipe(ss)
    ELSE [ss EXCEPT !.callback = "none", !.armed = @ \cup {ss.callback}]

\* the destination sends its next chunk: relayed if piped, else left unread
destinationData(ss) ==
    LET chunk == DestinationChunk(ss.destEmitted + 1)
        s0 == [ss EXCEPT !.destEmitted = @ + 1]
    IN  IF ss.piped
        THEN PipeToClient(s0, <<chunk>>)
        ELSE [s0 EXCEPT !.destUnread = Append(@, chunk)]

\* 'end' of the destination: destination.pipe(socket) ends the client socket
destinationEnd(ss) == [ss EXCEPT !.destFin = TRUE, !.ended = @ \/ ss.piped]

\* 'end' of the client socket: socket.pipe(destination) ends the destination
socketEnd(ss) == [ss EXCEPT !.clientEnded = TRUE, !.destEnded = @ \/ ss.piped]

\* the connection is reset: 'error' (an empty listener) and 'close'; no
\* listener of the session and no pipe handles 'close' of its source
socketClose(ss) == [ss EXCEPT !.closed = TRUE, !.closedWhile = ss.hook]

\* the chunk a client sends ahead of the reply it should wait for
EarlyChunk(k) == <<RFC_1928_VERSION, k>>

\* 'data' of the client socket with no listener: the socket has been flowing
\* since the first once("data", ...), so the chunk is emitted and gone
socketDataUnheard(ss) ==
    [ss EXCEPT !.unheard = Append(@, EarlyChunk(Len(ss.unheard) + 1))]

\* socket.pipe(destination): the client's next chunk goes to the destination
clientData(ss) ==
    [ss EXCEPT !.destReceived = Append(@, ClientChunk(Len(ss.destReceived) + 1))]

(***************************************************************************)
(* waitForConnect.  A promise is "pending", "resolved", or rejected with   *)
(* an error, which is written as the error itself; resolve and reject of a *)
(* settled promise do nothing.                                             *)
(***************************************************************************)
resolve(promise) == IF promise = "pending" THEN "resolved" ELSE promise

reject(promise, err) == IF promise = "pending" THEN err ELSE promise

\* socket.once("error", errorHandler); socket.once("connect", connectHandler)
waitForConnect(w) ==
    [w EXCEPT !.promise = "pending", !.listeners = {"error", "connect"}]

\* variant: the error listener is left on the socket
connectHandler_keepsListener(w) ==
    [w EXCEPT !.listeners = @ \ {"connect"}, !.promise = resolve(@)]

\* once removes connectHandler before it runs
connectHandler(w) ==
    [w EXCEPT !.listeners = (@ \ {"connect"}) \ {"error"}, !.promise = resolve(@)]

\* once removes errorHandler before it runs
errorHandler(w, err) ==
    [w EXCEPT !.listeners = (@ \ {"error"}) \ {"connect"}, !.promise = reject(@, err)]

\* socket.emit: the listeners of the event run, the others do not
emitConnect(w) ==
    LET w0 == [w EXCEPT !.emitted = Append(@, "connect")]
    IN  IF "connect" \in w.listeners THEN connectHandler(w0) ELSE w0

emitError(w, err) ==
    LET w0 == [w EXCEPT !.emitted = Append(@, err)]
    IN  IF "error" \in w.listeners THEN errorHandler(w0, err) ELSE w0

\* activeSessions.splice(activeSessions.indexOf(socket), 1): indexOf gives -1
\* for a socket that is not in the list, and splice(-1, 1) removes the last
\* element
IndexOf(list, x) ==
    IF Includes(list, x)
    THEN CHOOSE i \in 1..Len(list) : list[i] = x /\ \A j \in 1..(i - 1) : list[j] # x
    ELSE 0

RemoveAt(list, i) == SubSeq(list, 1, i - 1) \o SubSeq(list, i + 1, Len(list))

Splice(list, x) ==
    IF Len(list) = 0 THEN list
    ELSE IF IndexOf(list, x) = 0 THEN RemoveAt(list, Len(list))
    ELSE RemoveAt(list, IndexOf(list, x))

(***************************************************************************)
(* The steps.                                                              *)
(***************************************************************************)
Set(s, ss) == session' = [session EXCEPT ![s] = ss]

\* server.on("connection"): the handshake handler is armed
Connection(s) ==
    /\ s \in clients
    /\ ~session[s].accepted
    /\ Set(s, [session[s] EXCEPT !.accepted = TRUE, !.armed = {"handshake"}])
    /\ UNCHANGED <<options, clients, activeSessions>>

\* a socket that is read only while no other session waits for a hook
Readable_whenIdle(s) ==
    /\ session[s].accepted /\ ~session[s].clientEnded /\ ~session[s].closed
    /\ \A t \in Sessions \ {s} : session[t].hook = "none"

Readable(s) ==
    session[s].accepted /\ ~session[s].clientEnded /\ ~session[s].closed

Handshake(s) ==
    /\ Readable(s)
    /\ "handshake" \in session[s].armed
    /\ \E b \in HandshakeInputs : Set(s, handshake(session[s], b, options))
    /\ UNCHANGED <<options, clients, activeSessions>>

Authenticate(s) ==
    /\ Readable(s)
    /\ "authenticate" \in session[s].armed
    /\ \E b \in AuthInputs : Set(s, authenticate(session[s], b))
    /\ UNCHANGED <<options, clients, activeSessions>>

Connect(s) ==
    /\ Readable(s)
    /\ "connect" \in session[s].armed
    /\ \E b \in RequestInputs :
          /\ Set(s, connect(session[s], b, options))
          /\ activeSessions' =
                IF Word8(b, 0) = RFC_1928_VERSION
                THEN Append(activeSessions, s)
                ELSE activeSessions
    /\ UNCHANGED <<options, clients>>

WriteCallback(s) ==
    /\ session[s].callback # "none"
    /\ Set(s, writeCallback(session[s]))
    /\ UNCHANGED <<options, clients, activeSessions>>

AuthenticateSettled(s) ==
    /\ session[s].hook = "authenticate"
    /\ \E r \in HookResults : Set(s, authenticateSettled(session[s], r))
    /\ UNCHANGED <<options, clients, activeSessions>>

FilterSettled(s) ==
    /\ session[s].hook = "filter"
    /\ \E r \in HookResults : Set(s, filterSettled(session[s], r))
    /\ UNCHANGED <<options, clients, activeSessions>>

ConnectSettled(s) ==
    /\ session[s].hook = "connect"
    /\ \E r \in ConnectResults : Set(s, connectSettled(session[s], r))
    /\ UNCHANGED <<options, clients, activeSessions>>

\* 'data' of the destination socket
DestinationData(s) ==
    /\ session[s].destOpen
    /\ ~session[s].destFin
    /\ session[s].destEmitted < MaxRelay
    /\ Set(s, destinationData(session[s]))
    /\ UNCHANGED <<options, clients, activeSessions>>

\* 'data' of the client socket once it is piped to the destination
ClientData(s) ==
    /\ Readable(s)
    /\ session[s].piped
    /\ Len(session[s].destReceived) < MaxRelay
    /\ Set(s, clientData(session[s]))
    /\ UNCHANGED <<options, clients, activeSessions>>

\* socket.once("end"): the client has finished sending
SocketEnd(s) ==
    /\ Readable(s)
    /\ Set(s, socketEnd(session[s]))
    /\ activeSessions' = Splice(activeSessions, s)
    /\ UNCHANGED <<options, clients>>

\* 'end' of the destination socket
DestinationEnd(s) ==
    /\ session[s].destOpen
    /\ ~session[s].destFin
    /\ Set(s, destinationEnd(session[s]))
    /\ UNCHANGED <<options, clients, activeSessions>>

\* 'close' of a client socket whose connection was reset
SocketClose(s) ==
    /\ Readable(s)
    /\ Set(s, socketClose(session[s]))
    /\ UNCHANGED <<options, clients, activeSessions>>

Next ==
    \E s \in Sessions :
        \/ Connection(s)
        \/ Handshake(s)
        \/ Authenticate(s)
        \/ Connect(s)
        \/ WriteCallback(s)
        \/ AuthenticateSettled(s)
        \/ FilterSettled(s)
        \/ ConnectSettled(s)
        \/ DestinationData(s)
        \/ ClientData(s)
        \/ DestinationEnd(s)
        \/ SocketEnd(s)

Spec == Init /\ [][Next]_vars

\* the same connection, which the client may also reset
NextAbort == Next \/ \E s \in Sessions : SocketClose(s)

SpecAbort == Init /\ [][NextAbort]_vars

\* a client that sends without waiting for the reply of the stage before
SocketDataUnheard(s) ==
    /\ Readable(s)
    /\ session[s].armed = {}
    /\ ~session[s].piped
    /\ Len(session[s].unheard) < MaxUnheard
    /\ Set(s, socketDataUnheard(session[s]))
    /\ UNCHANGED <<options, clients, activeSessions>>

NextPipelined == Next \/ \E s \in Sessions : SocketDataUnheard(s)

SpecPipelined == Init /\ [][NextPipelined]_vars

(***************************************************************************)
(* The server with all its connections at once.  Each client sends a       *)
(* well-formed handshake, authentication and CONNECT request; the server   *)
(* has a filter hook, the hooks accept or deny, and the connect hook       *)
(* connects or is refused.                                                 *)
(***************************************************************************)
ServerHandshakeInputs ==
    {<<RFC_1928_VERSION, 1, METHOD_NO_AUTHENTICATION_REQUIRED>>}

ServerAuthInputs == {<<RFC_1929_VERSION, 1, 97, 1, 98>>}

ServerRequestInputs ==
    {<<RFC_1928_VERSION, CMD_CONNECT, 0, ATYP_IPV4>> \o AddrBytes(ATYP_IPV4) \o <<0, 80>>}

ServerHookResults == {"true", "false"}

ServerConnectResults == {"socket", "ECONNREFUSED"}

InitServer ==
    /\ options \in [authenticate : BOOLEAN, filter : {TRUE}]
    /\ clients = Sessions
    /\ activeSessions = <<>>
    /\ session = [s \in Sessions |-> NewSession]

ServerHandshake(s) ==
    /\ Readable(s)
    /\ "handshake" \in session[s].armed
    /\ \E b \in ServerHandshakeInputs : Set(s, handshake(session[s], b, options))
    /\ UNCHANGED <<options, clients, activeSessions>>

ServerAuthenticate(s) ==
    /\ Readable(s)
    /\ "authenticate" \in session[s].armed
    /\ \E b \in ServerAuthInputs : Set(s, authenticate(session[s], b))
    /\ UNCHANGED <<options, clients, activeSessions>>

ServerConnect(s) ==
    /\ Readable(s)
    /\ "connect" \in session[s].armed
    /\ \E b \in ServerRequestInputs :
          /\ Set(s, connect(session[s], b, options))
          /\ activeSessions' =
                IF Word8(b, 0) = RFC_1928_VERSION
                THEN Append(activeSessions, s)
                ELSE activeSessions
    /\ UNCHANGED <<options, clients>>

ServerAuthenticateSettled(s) ==
    /\ session[s].hook = "authenticate"
    /\ \E r \in ServerHookResults : Set(s, authenticateSettled(session[s], r))
    /\ UNCHANGED <<options, clients, activeSessions>>

ServerFilterSettled(s) ==
    /\ session[s].hook = "filter"
    /\ \E r \in ServerHookResults : Set(s, filterSettled(session[s], r))
    /\ UNCHANGED <<options, clients, activeSessions>>

ServerConnectSettled(s) ==
    /\ session[s].hook = "connect"
    /\ \E r \in ServerConnectResults : Set(s, connectSettled(session[s], r))
    /\ UNCHANGED <<options, clients, activeSessions>>

\* the first chunk a relaying client sends
ServerClientData(s) ==
    /\ Readable(s)
    /\ session[s].piped
    /\ session[s].destReceived = <<>>
    /\ Set(s, clientData(session[s]))
    /\ UNCHANGED <<options, clients, activeSessions>>

NextServer ==
    \E s \in Sessions :
        \/ Connection(s)
        \/ ServerHandshake(s)
        \/ ServerAuthenticate(s)
        \/ ServerConnect(s)
        \/ WriteCallback(s)
        \/ ServerAuthenticateSettled(s)
        \/ ServerFilterSettled(s)
        \/ ServerConnectSettled(s)
        \/ ServerClientData(s)
        \/ SocketEnd(s)
        \/ SocketClose(s)

SpecServer == InitServer /\ [][NextServer]_vars

(***************************************************************************)
(* waitForConnect on the destination sockets of the default connect hook:  *)
(* each socket emits 'connect' and 'error' events in any order.            *)
(***************************************************************************)
WaitErrors == {"ECONNREFUSED", "ETIMEDOUT"}

WaitForConnect(s) ==
    /\ session[s].wait.promise = "none"
    /\ Set(s, [session[s] EXCEPT !.wait = waitForConnect(@)])
    /\ UNCHANGED <<options, clients, activeSessions>>

EmitConnect(s) ==
    /\ session[s].wait.promise # "none"
    /\ Len(session[s].wait.emitted) < MaxEvents
    /\ Set(s, [session[s] EXCEPT !.wait = emitConnect(@)])
    /\ UNCHANGED <<options, clients, activeSessions>>

EmitError(s) ==
    /\ session[s].wait.promise # "none"
    /\ Len(session[s].wait.emitted) < MaxEvents
    /\ \E err \in WaitErrors : Set(s, [session[s] EXCEPT !.wait = emitError(@, err)])
    /\ UNCHANGED <<options, clients, activeSessions>>

NextWait ==
    \E s \in Sessions :
        \/ WaitForConnect(s)
        \/ EmitConnect(s)
        \/ EmitError(s)

SpecWait == InitServer /\ [][NextWait]_vars

(***************************************************************************)
(* Reading a session's history.                                            *)
(***************************************************************************)
IsRun(event) == event[1] = "run"

\* the handlers that have run, in order
Runs(ss) == [i \in 1..Len(SelectSeq(ss.trace, IsRun)) |-> SelectSeq(ss.trace, IsRun)[i][2]]

Happened(ss, event) == Includes(ss.trace, event)

\* event a happened, and event b happened before it
Before(ss, b, a) ==
    \A i \in 1..Len(ss.trace) :
        ss.trace[i] = a => \E j \in 1..(i - 1) : ss.trace[j] = b

\* the frames sent in the request stage: those after the handshake reply and,
\* with authentication, the authentication reply, and before the relayed ones
RequestReplies(ss) ==
    SubSeq(ss.sent, IF options.authenticate THEN 3 ELSE 2, Len(ss.sent) - ss.relayed)

Hello5(ss) == Len(ss.hello) > 0 /\ Word8(ss.hello, 0) = RFC_1928_VERSION

OffersNoAuth(ss) == Includes(Methods(ss.hello), METHOD_NO_AUTHENTICATION_REQUIRED)

Request5(ss) == Len(ss.request) > 0 /\ Word8(ss.request, 0) = RFC_1928_VERSION

FilterFalsy(ss) ==
    \E r \in {"false", "undefined"} : Happened(ss, <<"settle", "filter", r>>)

(***************************************************************************)
(* C1: with no authenticate hook, a version-5 handshake whose methods do   *)
(* not contain NO_AUTHENTICATION_REQUIRED is answered (0x05, 0xFF), the    *)
(* connection is ended and no handler is armed for a further buffer.       *)
(***************************************************************************)
C1_NoAcceptableMethods ==
    \A s \in Sessions :
        LET ss == session[s]
        IN  (~options.authenticate /\ Hello5(ss) /\ ~OffersNoAuth(ss))
            => /\ ss.sent = <<(<<RFC_1928_VERSION, METHOD_NO_ACCEPTABLE_METHODS>>)>>
               /\ ss.ended
               /\ ss.armed = {}
               /\ ss.callback = "none"
               /\ Runs(ss) = <<"handshake">>

(***************************************************************************)
(* C2: with an authenticate hook, filter and connect are called and the    *)
(* relay is started only after the authenticate hook was called and        *)
(* settled truthy, whatever methods the handshake offered.                 *)
(***************************************************************************)
AuthTrue == <<"settle", "authenticate", "true">>

C3_AlwaysBasicAuthentication ==
    \A s \in Sessions :
        LET ss == session[s]
        IN  (options.authenticate /\ Hello5(ss))
            => /\ ss.sent[1] = <<RFC_1928_VERSION, METHOD_BASIC_AUTHENTICATION>>
               /\ Len(Runs(ss)) >= 2 => Runs(ss)[2] = "authenticate"
               /\ Len(Runs(ss)) = 1 =>
                     /\ ss.armed \subseteq {"authenticate"}
                     /\ ss.callback \in {"none", "authenticate"}
                     /\ ss.callback = "none" => ss.armed = {"authenticate"}

C3_Witness ==
    \E s \in Sessions :
        /\ options.authenticate
        /\ session[s].hello = <<RFC_1928_VERSION, 1, METHOD_NO_AUTHENTICATION_REQUIRED>>
        /\ Runs(session[s]) = <<"handshake", "authenticate">>

(***************************************************************************)
(* C4: with no authenticate hook, a version-5 handshake offering           *)
(* NO_AUTHENTICATION_REQUIRED is answered (0x05, 0x00), the connection     *)
(* stays open and the next buffer goes to the request handler.             *)
(***************************************************************************)
C4_NoAuthenticationSelected ==
    \A s \in Sessions :
        LET ss == session[s]
        IN  (~options.authenticate /\ Hello5(ss) /\ OffersNoAuth(ss))
            => /\ ss.sent[1] = <<RFC_1928_VERSION, METHOD_NO_AUTHENTICATION_REQUIRED>>
               /\ Len(Runs(ss)) >= 2 => Runs(ss)[2] = "connect"
               /\ Len(Runs(ss)) = 1 =>
                     /\ ~ss.ended
                     /\ ss.armed \subseteq {"connect"}
                     /\ ss.callback \in {"none", "connect"}
                     /\ ss.callback = "none" => ss.armed = {"connect"}

C4_Witness ==
    \E s \in Sessions :
        /\ ~options.authenticate
        /\ Hello5(session[s]) /\ OffersNoAuth(session[s])
        /\ Runs(session[s]) = <<"handshake", "connect">>

C6_AuthenticationThrowIsDenial ==
    \A s \in Sessions :
        LET ss == session[s]
        IN  Happened(ss, <<"settle", "authenticate", "reject">>)
            => /\ Len(ss.sent) = 2
               /\ ss.sent[2] = <<RFC_1929_VERSION, AUTH_GENERAL_FAILURE>>
               /\ ss.ended

(***************************************************************************)
(* C7: a request whose VER is not 0x05 is answered with the request buffer *)
(* with byte 1 set to GENERAL_FAILURE, the connection is ended and no hook *)
(* is called for it.                                                       *)
(***************************************************************************)
C7_RequestVersionMismatch ==
    \A s \in Sessions :
        LET ss == session[s]
        IN  (Len(ss.request) > 0 /\ ~Request5(ss))
            => /\ RequestReplies(ss) = <<SetStatus(ss.request, REP_GENERAL_FAILURE)>>
               /\ ss.ended
               /\ ~Happened(ss, <<"call", "filter">>)
               /\ ~Happened(ss, <<"call", "connect">>)

(***************************************************************************)
(* C8: a version-5 request with an ATYP other than 0x01, 0x03, 0x04 is     *)
(* answered with the request buffer with status ADDRESS_TYPE_NOT_SUPPORTED *)
(* and the connection is ended.                                            *)
(***************************************************************************)
AddressTypes == {1, 3, 4}

C8_AddressTypeNotSupported ==
    \A s \in Sessions :
        LET ss == session[s]
        IN  (Request5(ss) /\ Word8(ss.request, 3) \notin AddressTypes)
            => /\ RequestReplies(ss) =
                     <<SetStatus(ss.request, REP_ADDRESS_TYPE_NOT_SUPPORTED)>>
               /\ ss.ended

C8_Witness ==
    \E s \in Sessions :
        /\ Request5(session[s])
        /\ Word8(session[s].request, 3) = 9
        /\ Word8(session[s].request, 1) = CMD_BIND
        /\ session[s].ended

(***************************************************************************)
(* C9: for a CONNECT request with a filter hook, a filter that settles     *)
(* falsy makes the session reply CONNECTION_NOT_ALLOWED and end the        *)
(* connection, and the connect hook is never called.                       *)
(***************************************************************************)
C9_FilterDenies ==
    \A s \in Sessions :
        LET ss == session[s]
        IN  FilterFalsy(ss)
            => /\ RequestReplies(ss) =
                     <<SetStatus(ss.request, REP_CONNECTION_NOT_ALLOWED)>>
               /\ ss.ended
               /\ ~Happened(ss, <<"call", "connect">>)

(***************************************************************************)
(* C10: for a CONNECT request with a filter hook, a filter that throws or  *)
(* rejects makes the session reply CONNECTION_NOT_ALLOWED and end the      *)
(* connection.                                                             *)
(***************************************************************************)
C10_FilterThrowDenies ==
    \A s \in Sessions :
        LET ss == session[s]
        IN  Happened(ss, <<"settle", "filter", "reject">>)
            => /\ RequestReplies(ss) =
                     <<SetStatus(ss.request, REP_CONNECTION_NOT_ALLOWED)>>
               /\ ss.ended

(***************************************************************************)
(* C11: when the connect hook rejects, the status of the final reply is    *)
(* 0x05 for ECONNREFUSED, 0x04 for EADDRNOTAVAIL and 0x03 for every other  *)
(* code and for an error without a code.                                   *)
(***************************************************************************)
ConnectErrors == ConnectResults \ {"socket"}

ConnectSettledWith(ss, result) == Happened(ss, <<"settle", "connect", result>>)

ConnectFailed(ss) == \E e \in ConnectErrors : ConnectSettledWith(ss, e)

FinalReply(ss) == RequestReplies(ss)[Len(RequestReplies(ss))]

C11_ConnectErrorReplies ==
    \A s \in Sessions : \A e \in ConnectErrors :
        LET ss == session[s]
        IN  ConnectSettledWith(ss, e)
            => /\ RequestReplies(ss) # <<>>
               /\ Len(FinalReply(ss)) >= 2
               /\ FinalReply(ss)[2] =
                     IF e = "ECONNREFUSED" THEN REP_CONNECTION_REFUSED
                     ELSE IF e = "EADDRNOTAVAIL" THEN REP_HOST_UNREACHABLE
                     ELSE REP_NETWORK_UNREACHABLE

(***************************************************************************)
(* C12: a connect hook rejecting with ETIMEDOUT is answered TTL_EXPIRED;   *)
(* for every connect failure exactly one reply is written, made from the   *)
(* request buffer, and the session ends without a relay.                   *)
(***************************************************************************)
C12_ConnectFailureReply ==
    \A s \in Sessions :
        LET ss == session[s]
        IN  /\ ConnectSettledWith(ss, "ETIMEDOUT")
               => RequestReplies(ss) = <<SetStatus(ss.request, REP_TTL_EXPIRED)>>
            /\ ConnectFailed(ss)
               => /\ Len(RequestReplies(ss)) = 1
                  /\ \E code \in 0..255 :
                        RequestReplies(ss)[1] = SetStatus(ss.request, code)
                  /\ ss.late = 0
                  /\ ss.ended
                  /\ ~ss.piped /\ ss.callback # "pipe" /\ ~ss.destOpen

(***************************************************************************)
(* C13, as the claim states it: a connect error is surfaced (thrown out of *)
(* the handler) exactly when it is answered NETWORK_UNREACHABLE, and only  *)
(* once the connection was ended with the reply.                           *)
(***************************************************************************)
Surfaced(ss) == ss.escaped = "rejection"

C13_UnrecognizedErrorSurfaced ==
    \A s \in Sessions : \A e \in ConnectErrors :
        LET ss == session[s]
        IN  ConnectSettledWith(ss, e)
            => /\ Surfaced(ss) <=> ReplyOf(e) = REP_NETWORK_UNREACHABLE
               /\ Surfaced(ss) => ss.ended /\ RequestReplies(ss) # <<>>

(***************************************************************************)
(* C13, amended: a connect error is surfaced exactly when it carries no    *)
(* string code, and by then the connection was ended with a reply; an      *)
(* error with a code, recognized or not, is not surfaced.                  *)
(***************************************************************************)
C13_ErrorWithoutCodeSurfaced ==
    \A s \in Sessions : \A e \in ConnectErrors :
        LET ss == session[s]
        IN  ConnectSettledWith(ss, e)
            => /\ Surfaced(ss) <=> e = "nocode"
               /\ Surfaced(ss) => ss.ended /\ RequestReplies(ss) # <<>>

C13_Witness ==
    \E s \in Sessions :
        /\ ConnectSettledWith(session[s], "nocode")
        /\ Surfaced(session[s])
        /\ RequestReplies(session[s]) =
              <<SetStatus(session[s].request, REP_NETWORK_UNREACHABLE)>>

(***************************************************************************)
(* C14: every reply of the request stage has the length of the request,    *)
(* equals it at every index but index 1, and holds a reply code at index   *)
(* 1, which is 0x00 on success.                                            *)
(***************************************************************************)
ReplyCodes ==
    {REP_SUCCEEDED, REP_GENERAL_FAILURE, REP_CONNECTION_NOT_ALLOWED,
     REP_NETWORK_UNREACHABLE, REP_HOST_UNREACHABLE, REP_CONNECTION_REFUSED,
     REP_TTL_EXPIRED, REP_ADDRESS_TYPE_NOT_SUPPORTED}

C14_ReplyKeepsRequestFraming ==
    \A s \in Sessions :
        LET ss == session[s]
        IN  /\ \A i \in 1..Len(RequestReplies(ss)) :
                  LET reply == RequestReplies(ss)[i]
                  IN  /\ Len(reply) = Len(ss.request)
                      /\ \A j \in 1..Len(reply) : j # 2 => reply[j] = ss.request[j]
                      /\ Len(reply) >= 2
                      /\ reply[2] \in ReplyCodes
            /\ (ConnectSettledWith(ss, "socket") /\ ss.late = 0)
               => FinalReply(ss)[2] = REP_SUCCEEDED

(***************************************************************************)
(* C15: the relay starts only after the connect hook resolved and the      *)
(* SUCCEEDED reply was written to the client; nothing of the destination   *)
(* reaches the client before that reply, and once relaying every chunk     *)
(* reaches the other side unchanged and in order.                          *)
(***************************************************************************)
RelayedFrames(ss) == SubSeq(ss.sent, Len(ss.sent) - ss.relayed + 1, Len(ss.sent))

C15_RelayAfterSucceededReply ==
    \A s \in Sessions :
        LET ss == session[s]
        IN  /\ (ss.piped \/ ss.relayed > 0 \/ ss.destReceived # <<>>)
               => /\ ConnectSettledWith(ss, "socket")
                  /\ RequestReplies(ss) = <<SetStatus(ss.request, REP_SUCCEEDED)>>
            /\ ss.piped
               => /\ RelayedFrames(ss) =
                        [k \in 1..ss.destEmitted |-> DestinationChunk(k)]
                  /\ ss.destReceived =
                        [k \in 1..Len(ss.destReceived) |-> ClientChunk(k)]

(***************************************************************************)
(* C16: a version-5 request with a CMD other than CONNECT and a supported  *)
(* ATYP is answered with status 0x00 and the connection is ended; neither  *)
(* filter nor connect is called and no relay is started.                   *)
(***************************************************************************)
C16_OtherCommandsSucceed ==
    \A s \in Sessions :
        LET ss == session[s]
        IN  (/\ Request5(ss)
             /\ Word8(ss.request, 1) # CMD_CONNECT
             /\ Word8(ss.request, 3) \in AddressTypes)
            => /\ RequestReplies(ss) = <<SetStatus(ss.request, REP_SUCCEEDED)>>
               /\ ss.ended
               /\ ss.late = 0
               /\ ~Happened(ss, <<"call", "filter">>)
               /\ ~Happened(ss, <<"call", "connect">>)
               /\ ss.hook = "none"
               /\ ~ss.piped /\ ss.callback = "none" /\ ~ss.destOpen

C16_Witness ==
    \E s \in Sessions :
        /\ options.filter
        /\ Word8(session[s].request, 1) = CMD_UDP_ASSOCIATE
        /\ Word8(session[s].request, 3) = ATYP_IPV4
        /\ session[s].ended

(***************************************************************************)
(* C17: a session is never left open with no reply, no armed handler and   *)
(* no pending hook: after a stage's message was delivered and its hooks    *)
(* have settled, a reply is written or the connection is ended.            *)
(***************************************************************************)
LeftOpen(ss) ==
    /\ ss.accepted
    /\ ~ss.ended
    /\ ss.armed = {}
    /\ ss.callback = "none"
    /\ ss.hook = "none"
    /\ ~ss.piped

C17_NoSilentHang == \A s \in Sessions : ~LeftOpen(session[s])

(***************************************************************************)
(* C18: a handshake whose VER is not 0x05 is answered (0x05, 0x01) and the *)
(* connection is ended; no handler is armed and no hook is called, with or *)
(* without an authenticate hook.                                           *)
(***************************************************************************)
C18_HandshakeVersionMismatch ==
    \A s \in Sessions :
        LET ss == session[s]
        IN  (Len(ss.hello) > 0 /\ ~Hello5(ss))
            => /\ ss.sent = <<(<<RFC_1928_VERSION, REP_GENERAL_FAILURE>>)>>
               /\ ss.ended
               /\ ss.armed = {}
               /\ ss.callback = "none"
               /\ ss.hook = "none"
               /\ ss.trace = <<(<<"run", "handshake">>)>>

C18_Witness ==
    \E s \in Sessions :
        /\ options.authenticate
        /\ Word8(session[s].hello, 0) = 4
        /\ session[s].ended

(***************************************************************************)
(* C19: an authentication message whose VER is not 0x01 is answered        *)
(* (0x01, 0xFF) and the connection is ended; the authenticate hook is not  *)
(* called for it.                                                          *)
(***************************************************************************)
C19_AuthenticationVersionMismatch ==
    \A s \in Sessions :
        LET ss == session[s]
        IN  (Len(ss.credentials) > 0 /\ Word8(ss.credentials, 0) # RFC_1929_VERSION)
            => /\ ss.sent = <<(<<RFC_1928_VERSION, METHOD_BASIC_AUTHENTICATION>>),
                              (<<RFC_1929_VERSION, AUTH_GENERAL_FAILURE>>)>>
               /\ ss.ended
               /\ ~Happened(ss, <<"call", "authenticate">>)
               /\ ss.hook = "none"
               /\ ss.armed = {}
               /\ ss.callback = "none"

C19_Witness ==
    \E s \in Sessions :
        /\ Word8(session[s].credentials, 0) = RFC_1928_VERSION
        /\ session[s].ended

(***************************************************************************)
(* C20: no handler runs, and none is armed, while a hook is pending; a     *)
(* handler is armed only once the reply of the stage before it is written. *)
(***************************************************************************)
IsCall(event) == event[1] = "call"

IsSettle(event) == event[1] = "settle"

\* the hooks called and not yet settled after the first n events
Pending(ss, n) ==
    Len(SelectSeq(SubSeq(ss.trace, 1, n), IsCall))
        - Len(SelectSeq(SubSeq(ss.trace, 1, n), IsSettle))

C20_StagesAreSequential ==
    \A s \in Sessions :
        LET ss == session[s]
        IN  /\ ss.hook # "none" => ss.armed = {} /\ ss.callback = "none"
            /\ \A i \in 1..Len(ss.trace) :
                  IsRun(ss.trace[i]) => Pending(ss, i - 1) = 0
            /\ "authenticate" \in ss.armed
               => ss.sent = <<(<<RFC_1928_VERSION, METHOD_BASIC_AUTHENTICATION>>)>>
            /\ ("connect" \in ss.armed /\ options.authenticate)
               => /\ Happened(ss, AuthTrue)
                  /\ ss.sent = <<(<<RFC_1928_VERSION, METHOD_BASIC_AUTHENTICATION>>),
                                 (<<RFC_1929_VERSION, AUTH_SUCCEEDED>>)>>
            /\ ("connect" \in ss.armed /\ ~options.authenticate)
               => ss.sent = <<(<<RFC_1928_VERSION, METHOD_NO_AUTHENTICATION_REQUIRED>>)>>

C20_Witness ==
    \E s \in Sessions :
        /\ options.authenticate
        /\ Runs(session[s]) = <<"handshake", "authenticate", "connect">>
        /\ Happened(session[s], <<"settle", "filter", "true">>)
        /\ session[s].hook = "connect"

(***************************************************************************)
(* C21: at most one stage handler (handshake, authenticate or request) is  *)
(* armed on a session's socket at any time.                                *)
(***************************************************************************)
C21_OneHandlerArmed ==
    \A s \in Sessions : Cardinality(session[s].armed) <= 1

C21_Witness ==
    \E s \in Sessions :
        /\ session[s].armed = {"connect"}
        /\ Runs(session[s]) = <<"handshake", "authenticate">>

(***************************************************************************)
(* C22: the stage of a session only moves forward through                  *)
(* AwaitingHandshake, AwaitingAuth, AwaitingRequest and then Relaying or   *)
(* Closed: each handler runs at most once, the request handler only after  *)
(* a handshake that selected a method, and each hook is called at most     *)
(* once.                                                                   *)
(***************************************************************************)
Stages ==
    <<"AwaitingHandshake", "AwaitingAuth", "AwaitingRequest", "Relaying", "Closed">>

Rank(stage) == CHOOSE i \in 1..Len(Stages) : Stages[i] = stage

Reached(ss, handler) ==
    \/ Includes(Runs(ss), handler)
    \/ handler \in ss.armed
    \/ ss.callback = handler

Stage(ss) ==
    IF ss.piped THEN "Relaying"
    ELSE IF ss.ended THEN "Closed"
    ELSE IF Reached(ss, "connect") THEN "AwaitingRequest"
    ELSE IF Reached(ss, "authenticate") THEN "AwaitingAuth"
    ELSE "AwaitingHandshake"

Count(seq, x) == Len(SelectSeq(seq, LAMBDA y : y = x))

SingleShot(ss) ==
    /\ Runs(ss) \in {<<>>, <<"handshake">>, <<"handshake", "authenticate">>,
                      <<"handshake", "connect">>,
                      <<"handshake", "authenticate", "connect">>}
    /\ Includes(Runs(ss), "connect")
       => /\ Hello5(ss)
          /\ ss.sent[1] \in {<<RFC_1928_VERSION, METHOD_NO_AUTHENTICATION_REQUIRED>>,
                              <<RFC_1928_VERSION, METHOD_BASIC_AUTHENTICATION>>}
    /\ \A hook \in {"authenticate", "filter", "connect"} :
          Count(ss.trace, <<"call", hook>>) <= 1

C22_StageMovesForward ==
    /\ [](\A s \in Sessions : SingleShot(session[s]))
    /\ [][\A s \in Sessions : Rank(Stage(session'[s])) >= Rank(Stage(session[s]))]_vars

(***************************************************************************)
(* C23: with authenticate and filter configured the hooks are called in    *)
(* the order authenticate, filter, connect: filter only after authenticate *)
(* settled truthy and the request handler decoded the request, connect     *)
(* only after filter settled.                                              *)
(***************************************************************************)
FilterSettledBefore(ss, event) ==
    \A i \in 1..Len(ss.trace) :
        ss.trace[i] = event
        => \E j \in 1..(i - 1) :
              IsSettle(ss.trace[j]) /\ ss.trace[j][2] = "filter"

StageVersion(i) ==
    IF options.authenticate /\ i = 2 THEN RFC_1929_VERSION ELSE RFC_1928_VERSION

C28_ReplyVersion ==
    \A s \in Sessions :
        LET ss == session[s]
        IN  \A i \in 1..(Len(ss.sent) - ss.relayed) :
                /\ Len(ss.sent[i]) >= 1
                /\ ss.sent[i][1] = StageVersion(i)

C28_Witness ==
    \E s \in Sessions :
        /\ options.authenticate
        /\ session[s].ended
        /\ Len(RequestReplies(session[s])) = 1
        /\ Word8(session[s].request, 3) = ATYP_IPV6

(***************************************************************************)
(* C24: no reply of a stage is written while the hook of that stage is     *)
(* pending, only after it settled; the 'end' or the close of the client    *)
(* socket in between neither cancels the hook nor writes a reply.          *)
(***************************************************************************)
NoReplyBeforeSettled(ss) ==
    /\ ss.hook = "authenticate"
       => /\ ss.sent = <<(<<RFC_1928_VERSION, METHOD_BASIC_AUTHENTICATION>>)>>
          /\ ss.late = 0 /\ ss.lost = <<>>
    /\ ss.hook \in {"filter", "connect"}
       => /\ RequestReplies(ss) = <<>>
          /\ ss.late = 0 /\ ss.lost = <<>>

ClientLeaves(s) ==
    \/ session'[s].clientEnded # session[s].clientEnded
    \/ session'[s].closed # session[s].closed

C24_ReplyOnlyAfterHookSettled ==
    /\ [](\A s \in Sessions : NoReplyBeforeSettled(session[s]))
    /\ [][\A s \in Sessions :
            (session[s].hook # "none" /\ ClientLeaves(s))
            => /\ session'[s].hook = session[s].hook
               /\ session'[s].sent = session[s].sent
               /\ session'[s].late = session[s].late]_vars

(***************************************************************************)
(* C30: while a session relays, the end or the close of the client socket  *)
(* ends the destination socket, and the end of the destination socket ends *)
(* the client socket (the pipes pass an end on within the step in which it *)
(* is seen, so that "eventually" is "in that state").                      *)
(***************************************************************************)
C30_RelayEndsBothSides ==
    \A s \in Sessions :
        LET ss == session[s]
        IN  ss.piped
            => /\ (ss.clientEnded \/ ss.closed) => ss.destEnded
               /\ ss.destFin => (ss.ended \/ ss.closed)

(***************************************************************************)
(* C25: the 'end' of one session's client socket removes that session's    *)
(* socket from activeSessions and nothing else: the entries of the other   *)
(* sessions stay, in their order, also when the ending session was never   *)
(* added.                                                                  *)
(***************************************************************************)
IsNot(s) == [x \in Sessions |-> x # s]

Without(list, s) == SelectSeq(list, LAMBDA x : IsNot(s)[x])

C25_EndRemovesOnlyOwnSocket ==
    [][\A s \in Sessions :
        (~session[s].clientEnded /\ session'[s].clientEnded)
        => activeSessions' = Without(activeSessions, s)]_vars

(***************************************************************************)
(* C26: every socket in activeSessions is there once and belongs to a      *)
(* connection that was accepted, whose request began with version 5, whose *)
(* client has not ended its stream, and that has not closed.               *)
(***************************************************************************)
C26_RegistryHoldsLiveSessions ==
    \A i \in 1..Len(activeSessions) :
        LET ss == session[activeSessions[i]]
        IN  /\ ss.accepted
            /\ Request5(ss)
            /\ ~ss.clientEnded
            /\ ~ss.closed
            /\ \A j \in 1..Len(activeSessions) :
                  activeSessions[j] = activeSessions[i] => j = i

(***************************************************************************)
(* C27: while the hook of one session is pending, every other session can  *)
(* take its next step: an armed handler of a connected client can run, a   *)
(* write callback can run, its own pending hook can settle.                *)
(***************************************************************************)
Connected(ss) == ss.accepted /\ ~ss.clientEnded /\ ~ss.closed

CanProceed(s) ==
    LET ss == session[s]
    IN  /\ (Connected(ss) /\ "handshake" \in ss.armed) => ENABLED ServerHandshake(s)
        /\ (Connected(ss) /\ "authenticate" \in ss.armed)
           => ENABLED ServerAuthenticate(s)
        /\ (Connected(ss) /\ "connect" \in ss.armed) => ENABLED ServerConnect(s)
        /\ (Connected(ss) /\ ss.piped /\ ss.destReceived = <<>>)
           => ENABLED ServerClientData(s)
        /\ ss.callback # "none" => ENABLED WriteCallback(s)
        /\ ss.hook = "authenticate" => ENABLED ServerAuthenticateSettled(s)
        /\ ss.hook = "filter" => ENABLED ServerFilterSettled(s)
        /\ ss.hook = "connect" => ENABLED ServerConnectSettled(s)

C27_PendingHookStallsOnlyItsSession ==
    \A t \in Sessions : \A s \in Sessions \ {t} :
        session[t].hook # "none" => CanProceed(s)

\* the request of s was processed after the filter hook of t was called, and
\* s relays while that hook is still pending
C27_Witness ==
    \E t \in Sessions : \E s \in Sessions \ {t} :
        /\ session[t].hook = "filter"
        /\ session[s].piped
        /\ session[s].destReceived # <<>>
        /\ activeSessions = <<t, s>>

(***************************************************************************)
(* C29: a terminating reply written to a client socket that is already     *)
(* closed is dropped: the socket stays closed, the reply is not written a  *)
(* second time, nothing is thrown by the write, and the step changes       *)
(* neither another session nor activeSessions.                             *)
(***************************************************************************)
ReplyLost(s) == Len(session'[s].lost) > Len(session[s].lost)

Outcome(event) == IF event = "connect" THEN "resolved" ELSE event

C31_WaitForConnectSettlesOnce ==
    /\ [](\A s \in Sessions :
            LET w == session[s].wait
            IN  /\ (w.promise = "pending") = (w.listeners = {"error", "connect"})
                /\ w.promise # "pending" => w.listeners = {}
                /\ (w.promise = "pending") => w.emitted = <<>>
                /\ w.emitted # <<>> => w.promise = Outcome(w.emitted[1]))
    /\ [][\A s \in Sessions :
            session[s].wait.promise \notin {"none", "pending"}
            => session'[s].wait.promise = session[s].wait.promise]_vars

\* 'error' after 'connect', and 'connect' after 'error'
C31_Witness ==
    \E s \in Sessions : \E t \in Sessions \ {s} :
        /\ session[s].wait.emitted = <<"connect", "ETIMEDOUT">>
        /\ session[t].wait.emitted = <<"ECONNREFUSED", "connect">>

(***************************************************************************)
(* C32: filter and connect are called only for a request that holds its    *)
(* full frame: 4 bytes, the address bytes of its ATYP (4 for IPv4, the     *)
(* length byte and that many bytes for a domain name, 16 for IPv6) and 2   *)
(* port bytes.  Stated for the requests with a supported ATYP.             *)
(***************************************************************************)
AddressBytes(b) ==
    CASE Word8(b, 3) = ATYP_IPV4 -> LENGTH_RFC_1928_ATYP
      [] Word8(b, 3) = ATYP_DOMAINNAME -> 1 + SizeOf(DomainSize(b))
      [] Word8(b, 3) = ATYP_IPV6 -> 4 * LENGTH_RFC_1928_ATYP

FullFrame(b) == Len(b) >= 4 + AddressBytes(b) + 2

HookCalled(ss) ==
    Happened(ss, <<"call", "filter">>) \/ Happened(ss, <<"call", "connect">>)

C32_HooksNeedFullFrame ==
    \A s \in Sessions :
        LET ss == session[s]
        IN  (HookCalled(ss) /\ Supported(Word8(ss.request, 3)))
            => FullFrame(ss.request)

(***************************************************************************)
(* C33: for a version-5 IPv6 request that holds its 16 address bytes and   *)
(* its port, the host given to filter and to connect is the eight 16-bit   *)
(* groups of the address bytes, in order, in lower-case hexadecimal        *)
(* without leading zeros, joined by ':'; the address 2001:0db8::1 is given *)
(* as "2001:db8:0:0:0:0:0:1".                                              *)
(***************************************************************************)
Nibbles(n) == <<n \div 4096, (n \div 256) % 16, (n \div 16) % 16, n % 16>>

RECURSIVE StripZeros(_)
StripZeros(digits) ==
    IF Len(digits) > 1 /\ Head(digits) = 0 THEN StripZeros(Tail(digits)) ELSE digits

RECURSIVE Digits(_)
Digits(digits) ==
    IF Len(digits) = 0 THEN "" ELSE DigitChars[Head(digits) + 1] \o Digits(Tail(digits))

GroupText(n) == Digits(StripZeros(Nibbles(n)))

\* the i-th 16-bit group of the address bytes, which follow the 4 header bytes
Group(b, i) == b[3 + 2 * i] * 256 + b[4 + 2 * i]

Ipv6Groups(b) == Join([i \in 1..8 |-> GroupText(Group(b, i))], ":")

Ipv6Request(b) ==
    Word8(b, 0) = RFC_1928_VERSION /\ Word8(b, 3) = ATYP_IPV6 /\ Len(b) >= 22

C33_Ipv6Address ==
    \A s \in Sessions :
        LET ss == session[s]
            b == ss.request
        IN  Ipv6Request(b)
            => /\ Happened(ss, <<"call", "filter">>)
                    => ss.filterArgs.addr = Ipv6Groups(b)
               /\ Happened(ss, <<"call", "connect">>)
                    => ss.connectArgs.addr = Ipv6Groups(b)
               /\ SubSeq(b, 5, 20) = AddrBytes(ATYP_IPV6)
                    => Ipv6Groups(b) = "2001:db8:0:0:0:0:0:1"

C33_Witness ==
    \E s \in Sessions :
        /\ session[s].filterArgs.addr = "2001:db8:0:0:0:0:0:1"
        /\ session[s].connectArgs.addr = "2001:db8:0:0:0:0:0:1"

(***************************************************************************)
(* C34: for a version-5 IPv4 request that holds its 4 address bytes and    *)
(* its port, filter and connect are given the host that is the four        *)
(* address bytes in decimal joined by '.', and the port 256 * (first port  *)
(* byte) + (second port byte); bytes 93 184 216 34 and 0 80 give           *)
(* "93.184.216.34" and 80.                                                 *)
(***************************************************************************)
DecimalText(n) ==
    IF n < 10 THEN Digits(<<n>>)
    ELSE IF n < 100 THEN Digits(<<n \div 10, n % 10>>)
    ELSE Digits(<<n \div 100, (n \div 10) % 10, n % 10>>)

DottedQuad(b) ==
    DecimalText(b[5]) \o "." \o DecimalText(b[6]) \o "."
        \o DecimalText(b[7]) \o "." \o DecimalText(b[8])

Ipv4Destination(b) == [addr |-> DottedQuad(b), port |-> 256 * b[9] + b[10]]

Ipv4Request(b) ==
    Word8(b, 0) = RFC_1928_VERSION /\ Word8(b, 3) = ATYP_IPV4 /\ Len(b) >= 10

C34_Ipv4Destination ==
    \A s \in Sessions :
        LET ss == session[s]
            b == ss.request
        IN  Ipv4Request(b)
            => /\ Happened(ss, <<"call", "filter">>)
                    => ss.filterArgs = Ipv4Destination(b)
               /\ Happened(ss, <<"call", "connect">>)
                    => ss.connectArgs = Ipv4Destination(b)
               /\ SubSeq(b, 5, 10) = <<93, 184, 216, 34, 0, 80>>
                    => Ipv4Destination(b) = [addr |-> "93.184.216.34", port |-> 80]

C34_Witness ==
    \E s \in Sessions :
        /\ session[s].filterArgs = [addr |-> "10.0.0.1", port |-> 443]
        /\ session[s].connectArgs = [addr |-> "10.0.0.1", port |-> 443]

(***************************************************************************)
(* C35: a session that has ended its client socket with a terminating      *)
(* reply waits for no hook and hands nothing more to the socket, and a     *)
(* version-5 request with an unsupported ATYP gets one reply and reaches   *)
(* neither filter nor connect.                                             *)
(***************************************************************************)
C35_NothingAfterTerminatingReply ==
    \A s \in Sessions :
        LET ss == session[s]
        IN  /\ (ss.ended /\ ~ss.piped) => ss.hook = "none"
            /\ ss.late = 0
            /\ (Request5(ss) /\ ~Supported(Word8(ss.request, 3)))
               => /\ ~HookCalled(ss)
                  /\ Len(RequestReplies(ss)) <= 1

(***************************************************************************)
(* C36: no handler throws, whatever bytes the client sent: a buffer that   *)
(* violates the protocol is answered or the connection is ended.           *)
(***************************************************************************)
C36_HandlersNeverThrow ==
    \A s \in Sessions : session[s].escaped # "TypeError"

(***************************************************************************)
(* C37: connect is called only for a version-5 CONNECT request, with no    *)
(* filter hook or after the filter hook settled truthy (not after a falsy  *)
(* result, a throw or a rejection), and with the port and host the filter  *)
(* hook was called with.                                                   *)
(***************************************************************************)
FilterAllowed(ss) ==
    /\ Before(ss, <<"settle", "filter", "true">>, <<"call", "connect">>)
    /\ ~FilterFalsy(ss)
    /\ ~Happened(ss, <<"settle", "filter", "reject">>)

Open(ss) == ss.accepted /\ ~ss.ended /\ ~ss.clientEnded /\ ~ss.closed

C38_NoClientDataDropped ==
    \A s \in Sessions : Open(session[s]) => session[s].unheard = <<>>

(***************************************************************************)
(* C39: when the client connection was reset while the connect hook was    *)
(* pending and the hook resolved with a destination socket, then, once the *)
(* callback of the reply has run, the destination socket is ended (by the  *)
(* session, or by the destination itself).                                 *)
(***************************************************************************)
C39_NoOrphanDestination ==
    \A s \in Sessions :
        LET ss == session[s]
        IN  (ss.closed /\ ss.closedWhile = "connect" /\ ss.destOpen
                /\ ss.hook = "none" /\ ss.callback = "none")
            => ss.destEnded \/ ss.destFin

====
